---------------------------- MODULE Spec2Model ----------------------------
(***************************************************************************)
(* Model of the outline pipeline of LomaLoma__:                            *)
(*   - build_outline (postprocess.py), the stack-based Outline Builder;    *)
(*   - generate_flat_outline (scripts/taska_output.py), title resolution   *)
(*     and the flat outline;                                               *)
(*   - main / extract_text_features / ocr_page (parallel_parsing_pdf.py),  *)
(*     the recognition fallback scheduler and its collection loop.         *)
(*   - predict_outline_for_file (taska_output.py) with the functions it    *)
(*     calls: extract_lines_from_pdf (utils/pdf_util.py) and               *)
(*     document_to_feature_sequence (utils/feature_utils.py);              *)
(*   - extract_lines_from_pdf of scripts/utils/pdf_util.py.                *)
(* Each part has its own specification over its own variables; the other   *)
(* parts' variables stay at their idle values.                             *)
(***************************************************************************)
EXTENDS Integers, Sequences, FiniteSets, TLC

VARIABLES
    \* build_outline
    lines,      \* the input line records (text, page)
    labels,     \* the input label sequence
    pc,         \* "loop" while the for loop runs, "done" after return
    i,          \* number of (line, label) pairs consumed so far
    entries,    \* every entry dict created so far, by creation order
    outline,    \* the list `outline`: ids of the root-level entries
    stack,      \* the list `stack`: ids of the open entries, bottom first
    \* generate_flat_outline
    g_lines, g_labels, g_path, g_pc, g_title, g_outline,
    \* parallel_parsing_pdf.main
    doc,          \* the pages of the document, as the renderer returns them
    o_pc,         \* position of main
    features,     \* the list all_features
    origin,       \* history: for each element of features, where it came from
    ocr_tasks,    \* the list all_ocr_tasks (page numbers, in order)
    submitted,    \* number of tasks handed to the executor
    fut,          \* state of each submitted future
    collected,    \* tasks the as_completed loop has handled, in order
    log,          \* the lines main printed about tasks
    output,       \* the content of the written file, or None
    \* successive calls of build_outline
    run,          \* which call of build_outline is executing (1 or 2)
    first_tree,   \* the tree the first call returned, or None
    \* taska_output.predict_outline_for_file and the functions it calls
    f_doc,        \* the pages of the document, as the renderer returns them
    f_path,       \* pdf_path
    f_pc,         \* position of the call
    f_page,       \* number of pages extract_lines_from_pdf has processed
    f_lines,      \* the list all_lines / lines
    f_records,    \* the feature sequence (empty before it is computed)
    f_labels,     \* the labels the model predicted (empty before)
    f_result,     \* the returned dict, or None
    f_error       \* the exception the handler reported, or None

outlineVars == <<lines, labels, pc, i, entries, outline, stack>>
flatVars    == <<g_lines, g_labels, g_path, g_pc, g_title, g_outline>>
ocrVars     == <<doc, o_pc, features, origin, ocr_tasks, submitted,
                 fut, collected, log, output>>
callVars    == <<run, first_tree>>
fileVars    == <<f_doc, f_path, f_pc, f_page, f_lines, f_records, f_labels,
                 f_result, f_error>>
vars        == <<outlineVars, flatVars, ocrVars, callVars, fileVars>>

None == "None"

-----------------------------------------------------------------------------
(* Bounds *)

\* longest (line, label) sequence given to build_outline
MaxLines == 3
\* longest (line, label) sequence given to generate_flat_outline
MaxFlatLines == 3
\* most pages of a document
MaxPages == 3
\* worker processes of the pool (ProcessPoolExecutor(): the machine's CPU count)
Workers == 2

-----------------------------------------------------------------------------
(* Text: a Python str is the sequence of its characters, each written as   *)
(* a one-character string (the bullet glyph by its code point's name).     *)

Whitespace == {" ", "\t", "\n"}

RECURSIVE LStrip(_)
LStrip(s) ==
    IF s # <<>> /\ Head(s) \in Whitespace THEN LStrip(Tail(s)) ELSE s

RECURSIVE RStrip(_)
RStrip(s) ==
    IF s # <<>> /\ s[Len(s)] \in Whitespace
    THEN RStrip(SubSeq(s, 1, Len(s) - 1))
    ELSE s

\* str.strip()
Strip(s) == RStrip(LStrip(s))

\* len(str.split()): the number of maximal runs of non-whitespace characters
WordCount(s) ==
    Cardinality({k \in 1..Len(s) :
        /\ s[k] \notin Whitespace
        /\ (k = 1 \/ s[k - 1] \in Whitespace)})

\* the concatenation of a sequence of sequences
RECURSIVE Concat(_)
Concat(qs) == IF qs = <<>> THEN <<>> ELSE Head(qs) \o Concat(Tail(qs))

-----------------------------------------------------------------------------
(* Labels and their comparison.  build_outline compares the "level"        *)
(* strings with >=, which Python evaluates code point by code point.       *)

Labels == {"TITLE", "H1", "H2", "H3", "BODY"}

\* the code points of a label string
Code(l) ==
    CASE l = "TITLE" -> <<84, 73, 84, 76, 69>>
      [] l = "H1"    -> <<72, 49>>
      [] l = "H2"    -> <<72, 50>>
      [] l = "H3"    -> <<72, 51>>
      [] l = "BODY"  -> <<66, 79, 68, 89>>

UpperCode(c) == IF c \in 97..122 THEN c - 32 ELSE c

\* str.upper()
Upper(l) ==
    LET u == [k \in DOMAIN Code(l) |-> UpperCode(Code(l)[k])]
    IN  CHOOSE m \in Labels : Code(m) = u

\* Python's str.__lt__ on code point sequences
RECURSIVE LexLess(_, _)
LexLess(a, b) ==
    IF b = <<>> THEN FALSE
    ELSE IF a = <<>> THEN TRUE
    ELSE IF Head(a) # Head(b) THEN Head(a) < Head(b)
    ELSE LexLess(Tail(a), Tail(b))

\* a >= b on strings
StrGE(a, b) == ~LexLess(Code(a), Code(b))

-----------------------------------------------------------------------------
(* build_outline (postprocess.py) *)

\* zip(lines, labels) stops at the shorter sequence
ZipLen(ls, lbs) == IF Len(ls) <= Len(lbs) THEN Len(ls) ELSE Len(lbs)

\* the comparison written against the lower-case spelling
IsBodyLower(label) == label = "body"

\* `if label == "BODY": continue`
IsBody(label) == label = "BODY"

\* the entry dict of a heading line
NewEntry(line, label) ==
    [level |-> Upper(label), text |-> Strip(line.text), page |-> line.page]

\* `while stack and stack[-1]["level"] >= level: stack.pop()`
RECURSIVE PopWhile(_, _, _)
PopWhile(st, es, level) ==
    IF st # <<>> /\ StrGE(es[st[Len(st)]].level, level)
    THEN PopWhile(SubSeq(st, 1, Len(st) - 1), es, level)
    ELSE st

\* the child is put in front of the list instead of at its end
AddChildFront(e, id) ==
    IF "children" \in DOMAIN e
    THEN [e EXCEPT !.children = <<id>> \o @]
    ELSE [k \in DOMAIN e \cup {"children"} |->
            IF k = "children" THEN <<id>> ELSE e[k]]

\* parent.setdefault("children", []).append(id)
AddChild(e, id) ==
    IF "children" \in DOMAIN e
    THEN [e EXCEPT !.children = Append(@, id)]
    ELSE [k \in DOMAIN e \cup {"children"} |->
            IF k = "children" THEN <<id>> ELSE e[k]]

\* one iteration of the loop on a BODY pair
BodyStep ==
    /\ pc = "loop"
    /\ i < ZipLen(lines, labels)
    /\ IsBody(labels[i + 1])
    /\ i' = i + 1
    /\ UNCHANGED <<lines, labels, pc, entries, outline, stack>>
    /\ UNCHANGED <<flatVars, ocrVars, callVars, fileVars>>

\* an iteration that takes the parent from the stack before popping
HeadingStepReopen ==
    /\ pc = "loop"
    /\ i < ZipLen(lines, labels)
    /\ ~IsBody(labels[i + 1])
    /\ LET entry == NewEntry(lines[i + 1], labels[i + 1])
           id    == Len(entries) + 1
           st    == PopWhile(stack, entries, entry.level)
       IN  /\ IF stack = <<>>
              THEN /\ outline' = Append(outline, id)
                   /\ entries' = Append(entries, entry)
              ELSE /\ outline' = outline
                   /\ entries' = Append(
                        [entries EXCEPT ![stack[Len(stack)]] = AddChild(@, id)],
                        entry)
           /\ stack' = Append(st, id)
    /\ i' = i + 1
    /\ UNCHANGED <<lines, labels, pc>>
    /\ UNCHANGED <<flatVars, ocrVars, callVars, fileVars>>

\* an iteration that writes the level into the line dict itself
HeadingStepInPlace ==
    /\ pc = "loop"
    /\ i < ZipLen(lines, labels)
    /\ ~IsBody(labels[i + 1])
    /\ LET entry == NewEntry(lines[i + 1], labels[i + 1])
           id    == Len(entries) + 1
           st    == PopWhile(stack, entries, entry.level)
       IN  /\ IF st = <<>>
              THEN /\ outline' = Append(outline, id)
                   /\ entries' = Append(entries, entry)
              ELSE /\ outline' = outline
                   /\ entries' = Append(
                        [entries EXCEPT ![st[Len(st)]] = AddChild(@, id)],
                        entry)
           /\ stack' = Append(st, id)
           /\ lines' = [lines EXCEPT ![i + 1] = entry]
    /\ i' = i + 1
    /\ UNCHANGED <<labels, pc>>
    /\ UNCHANGED <<flatVars, ocrVars, callVars, fileVars>>

\* one iteration of the loop on any other pair
HeadingStep ==
    /\ pc = "loop"
    /\ i < ZipLen(lines, labels)
    /\ ~IsBody(labels[i + 1])
    /\ LET entry == NewEntry(lines[i + 1], labels[i + 1])
           id    == Len(entries) + 1
           st    == PopWhile(stack, entries, entry.level)
       IN  /\ IF st = <<>>
              THEN /\ outline' = Append(outline, id)
                   /\ entries' = Append(entries, entry)
              ELSE /\ outline' = outline
                   /\ entries' = Append(
                        [entries EXCEPT ![st[Len(st)]] = AddChild(@, id)],
                        entry)
           /\ stack' = Append(st, id)
    /\ i' = i + 1
    /\ UNCHANGED <<lines, labels, pc>>
    /\ UNCHANGED <<flatVars, ocrVars, callVars, fileVars>>

\* a return that reads the first line of the input before returning
ReturnOutlineNonEmpty ==
    /\ pc = "loop"
    /\ i = ZipLen(lines, labels)
    /\ lines # <<>>
    /\ pc' = "done"
    /\ UNCHANGED <<lines, labels, i, entries, outline, stack>>
    /\ UNCHANGED <<flatVars, ocrVars, callVars, fileVars>>

\* `return outline`
ReturnOutline ==
    /\ pc = "loop"
    /\ i = ZipLen(lines, labels)
    /\ pc' = "done"
    /\ UNCHANGED <<lines, labels, i, entries, outline, stack>>
    /\ UNCHANGED <<flatVars, ocrVars, callVars, fileVars>>

\* the value of an entry dict: its keys with the values of its children
RECURSIVE Tree(_, _)
Tree(es, id) ==
    [level    |-> es[id].level,
     text     |-> es[id].text,
     page     |-> es[id].page,
     keys     |-> DOMAIN es[id],
     children |-> IF "children" \in DOMAIN es[id]
                  THEN [k \in DOMAIN es[id].children |->
                            Tree(es, es[id].children[k])]
                  ELSE <<>>]

\* the value of the returned list
Forest(es, ids) == [k \in DOMAIN ids |-> Tree(es, ids[k])]

\* a second call whose stack is the list the first call left
CallAgainKeepStack ==
    /\ pc = "done" /\ run = 1
    /\ first_tree' = Forest(entries, outline)
    /\ run' = 2
    /\ pc' = "loop" /\ i' = 0
    /\ outline' = <<>>
    /\ UNCHANGED <<lines, labels, entries, stack>>
    /\ UNCHANGED <<flatVars, ocrVars, fileVars>>

\* build_outline is called again with the same arguments: `outline = []`,
\* `stack = []` are fresh lists; the dicts of the first call stay on the heap
CallAgain ==
    /\ pc = "done" /\ run = 1
    /\ first_tree' = Forest(entries, outline)
    /\ run' = 2
    /\ pc' = "loop" /\ i' = 0
    /\ outline' = <<>> /\ stack' = <<>>
    /\ UNCHANGED <<lines, labels, entries>>
    /\ UNCHANGED <<flatVars, ocrVars, fileVars>>

-----------------------------------------------------------------------------
(* generate_flat_outline (scripts/taska_output.py) *)

\* the character U+2022, the bullet glyph
BulletChar == "U+2022"

\* the str "\u2022"
Bullet == <<BulletChar>>

\* label.startswith("H")
StartsWithH(label) == Code(label) # <<>> /\ Head(Code(label)) = 72

\* `[(line, label) for line, label in zip(lines, labels) if label.startswith("H")]`,
\* as the positions of the pairs it keeps
RECURSIVE HeadingBlocks(_, _, _)
HeadingBlocks(ls, lbs, k) ==
    IF k > ZipLen(ls, lbs) THEN <<>>
    ELSE IF StartsWithH(lbs[k]) THEN <<k>> \o HeadingBlocks(ls, lbs, k + 1)
    ELSE HeadingBlocks(ls, lbs, k + 1)

\* number of heading entries the title is looked for in: heading_blocks[:2]
TitleCandidates == 2

\* the slice taken one entry too long
FirstCandidatesThree(hb) ==
    SubSeq(hb, 1, IF Len(hb) < TitleCandidates + 1 THEN Len(hb)
                  ELSE TitleCandidates + 1)

\* heading_blocks[:2]
FirstCandidates(hb) ==
    SubSeq(hb, 1, IF Len(hb) < TitleCandidates THEN Len(hb) ELSE TitleCandidates)

\* the word test written with >= instead of >
QualifiesAtLeastThree(text) == WordCount(text) >= 3 /\ text # Bullet

\* `len(text.split()) > 3 and text != "\u2022"`
Qualifies(text) == WordCount(text) > 3 /\ text # Bullet

\* the for loop with its break: the first candidate that qualifies, or None
RECURSIVE FirstQualifying(_, _)
FirstQualifying(ls, cands) ==
    IF cands = <<>> THEN None
    ELSE LET text == Strip(ls[Head(cands)].text)
         IN  IF Qualifies(text) THEN text
             ELSE FirstQualifying(ls, Tail(cands))

\* largest position of character c in s, 0 when absent
LastIndex(s, c) ==
    LET at == {k \in 1..Len(s) : s[k] = c}
    IN  IF at = {} THEN 0 ELSE CHOOSE k \in at : \A m \in at : m <= k

\* os.path.basename
Basename(p) == SubSeq(p, LastIndex(p, "/") + 1, Len(p))

\* os.path.splitext(p)[0]
SplitExtRoot(p) ==
    LET sep == LastIndex(p, "/")
        dot == LastIndex(p, ".")
    IN  IF dot > sep /\ \E k \in (sep + 1)..(dot - 1) : p[k] # "."
        THEN SubSeq(p, 1, dot - 1)
        ELSE p

\* `if not title: title = os.path.splitext(os.path.basename(pdf_path))[0]`
FallbackTitle(path) == SplitExtRoot(Basename(path))

\* lines 8-21: the title
TitleOf(ls, lbs, path) ==
    LET title == FirstQualifying(ls, FirstCandidates(HeadingBlocks(ls, lbs, 1)))
    IN  IF title = None \/ title = <<>> THEN FallbackTitle(path) ELSE title

\* lines 23-31: the flat outline
RECURSIVE FlatEntries(_, _, _)
FlatEntries(ls, lbs, k) ==
    IF k > ZipLen(ls, lbs) THEN <<>>
    ELSE LET text == Strip(ls[k].text)
             rest == FlatEntries(ls, lbs, k + 1)
         IN  IF lbs[k] \in {"H1", "H2", "H3"} /\ text # <<>> /\ text # Bullet
             THEN <<[level |-> lbs[k], text |-> text, page |-> ls[k].page_num]>>
                  \o rest
             ELSE rest

\* the title part of generate_flat_outline
ResolveTitle ==
    /\ g_pc = "title"
    /\ g_title' = TitleOf(g_lines, g_labels, g_path)
    /\ g_pc' = "outline"
    /\ UNCHANGED <<g_lines, g_labels, g_path, g_outline>>
    /\ UNCHANGED <<outlineVars, ocrVars, callVars, fileVars>>

\* the outline part of generate_flat_outline, and its return
CollectFlatOutline ==
    /\ g_pc = "outline"
    /\ g_outline' = FlatEntries(g_lines, g_labels, 1)
    /\ g_pc' = "done"
    /\ UNCHANGED <<g_lines, g_labels, g_path, g_title>>
    /\ UNCHANGED <<outlineVars, ocrVars, callVars, fileVars>>

-----------------------------------------------------------------------------
(* Recognition fallback: parallel_parsing_pdf.py *)

SeqMin(q) == CHOOSE v \in {q[k] : k \in DOMAIN q} : \A k \in DOMAIN q : v <= q[k]
SeqMax(q) == CHOOSE v \in {q[k] : k \in DOMAIN q} : \A k \in DOMAIN q : q[k] <= v

\* the k-th smallest element of q (1-based), as sorted(q)[k-1]
KthSmallest(q, k) ==
    CHOOSE v \in {q[j] : j \in DOMAIN q} :
        /\ Cardinality({j \in DOMAIN q : q[j] < v}) < k
        /\ Cardinality({j \in DOMAIN q : q[j] <= v}) >= k

\* np.median; font sizes are written in units in which the inputs are even,
\* so the mean of the two middle values is exact
Median(q) ==
    LET n == Len(q)
    IN  IF n % 2 = 1 THEN KthSmallest(q, (n + 1) \div 2)
        ELSE (KthSmallest(q, n \div 2) + KthSmallest(q, n \div 2 + 1)) \div 2

\* " ".join(texts)
RECURSIVE Join(_)
Join(texts) ==
    IF texts = <<>> THEN <<>>
    ELSE IF Len(texts) = 1 THEN Head(texts)
    ELSE Head(texts) \o <<" ">> \o Join(Tail(texts))

\* `has_text = any("lines" in block for block in blocks)`
HasText(blocks) == \E b \in DOMAIN blocks : "lines" \in DOMAIN blocks[b]

\* the spans of a line whose stripped text is not empty (lines 43-46)
KeptSpans(line) == SelectSeq(line.spans, LAMBDA sp : Strip(sp.text) # <<>>)

\* the feature dict of one renderer line (lines 58-73); called when it keeps a span
LineFeature(line, page_num) ==
    LET sp   == KeptSpans(line)
        text == Join([k \in DOMAIN sp |-> Strip(sp[k].text)])
        x0s  == [k \in DOMAIN sp |-> sp[k].bbox[1]]
        y0s  == [k \in DOMAIN sp |-> sp[k].bbox[2]]
        x1s  == [k \in DOMAIN sp |-> sp[k].bbox[3]]
        y1s  == [k \in DOMAIN sp |-> sp[k].bbox[4]]
    IN  [text        |-> text,
         font_size   |-> Median([k \in DOMAIN sp |-> sp[k].size]),
         line_width  |-> SeqMax(x1s) - SeqMin(x0s),
         line_height |-> SeqMax(y1s) - SeqMin(y0s),
         char_count  |-> Len(text),
         page        |-> page_num,
         y_position  |-> SeqMin(y0s)]

\* block.get("lines", [])
BlockLines(block) == IF "lines" \in DOMAIN block THEN block.lines ELSE <<>>

\* the features of the lines of one block, in order (lines 37-73)
RECURSIVE LinesFeatures(_, _)
LinesFeatures(ls, page_num) ==
    IF ls = <<>> THEN <<>>
    ELSE (IF KeptSpans(Head(ls)) = <<>> THEN <<>>
          ELSE <<LineFeature(Head(ls), page_num)>>)
         \o LinesFeatures(Tail(ls), page_num)

\* the features of the blocks of one page, in order (lines 36-73)
RECURSIVE BlocksFeatures(_, _)
BlocksFeatures(blocks, page_num) ==
    IF blocks = <<>> THEN <<>>
    ELSE LinesFeatures(BlockLines(Head(blocks)), page_num)
         \o BlocksFeatures(Tail(blocks), page_num)

\* extract_text_features: the pair (features, ocr_tasks) over pages k..len(doc);
\* page k of the sequence has page.number k - 1
RECURSIVE ExtractTextFeatures(_, _)
ExtractTextFeatures(d, k) ==
    IF k > Len(d) THEN [features |-> <<>>, ocr_tasks |-> <<>>]
    ELSE LET rest == ExtractTextFeatures(d, k + 1)
             page_num == k - 1
         IN  IF ~HasText(d[k].blocks)
             THEN [features  |-> rest.features,
                   ocr_tasks |-> <<page_num>> \o rest.ocr_tasks]
             ELSE [features  |-> BlocksFeatures(d[k].blocks, page_num)
                                 \o rest.features,
                   ocr_tasks |-> rest.ocr_tasks]

\* the page tag ocr_page writes: `"page": page_num + 1`
OcrPageTag(page_num) == page_num + 1

\* the words ocr_page keeps: `if not txt: continue`
KeptWords(data) == SelectSeq(data, LAMBDA w : Strip(w.text) # <<>>)

\* a key without the line number
WordKeyBlockPar(w) == <<w.block_num, w.par_num>>

\* `key = (data["block_num"][i], data["par_num"][i], data["line_num"][i])`
WordKey(w) == <<w.block_num, w.par_num, w.line_num>>

\* the keys of the dict `lines`, in insertion order
RECURSIVE GroupKeys(_, _)
GroupKeys(ws, seen) ==
    IF ws = <<>> THEN <<>>
    ELSE IF WordKey(Head(ws)) \in seen THEN GroupKeys(Tail(ws), seen)
    ELSE <<WordKey(Head(ws))>>
         \o GroupKeys(Tail(ws), seen \cup {WordKey(Head(ws))})

\* the enriched line of one group (lines 107-125)
EnrichedLine(ws, key, page_num) ==
    LET grp  == SelectSeq(ws, LAMBDA w : WordKey(w) = key)
        text == Join([k \in DOMAIN grp |-> Strip(grp[k].text)])
        x0   == SeqMin([k \in DOMAIN grp |-> grp[k].left])
        y0   == SeqMin([k \in DOMAIN grp |-> grp[k].top])
        x1   == SeqMax([k \in DOMAIN grp |-> grp[k].left + grp[k].width])
        y1   == SeqMax([k \in DOMAIN grp |-> grp[k].top + grp[k].height])
    IN  [text        |-> text,
         font_size   |-> 0,
         line_width  |-> x1 - x0,
         line_height |-> y1 - y0,
         char_count  |-> Len(text),
         page        |-> OcrPageTag(page_num),
         y_position  |-> y0]

\* ocr_page(pdf_path, page_num): the engine's words for the page's raster,
\* grouped into enriched lines
OcrPage(d, page_num) ==
    LET ws   == KeptWords(d[page_num + 1].raster)
        keys == GroupKeys(ws, {})
    IN  [k \in DOMAIN keys |-> EnrichedLine(ws, keys[k], page_num)]

Running == {t \in DOMAIN fut : fut[t].state = "running"}

\* lines 144-153 of main (one document): extract, extend, queue the tasks;
\* `if all_ocr_tasks:` skips the pool when there is none
Extract ==
    /\ o_pc = "extract"
    /\ LET r == ExtractTextFeatures(doc, 1)
       IN  /\ features' = features \o r.features
           /\ origin' = origin \o
                [k \in DOMAIN r.features |->
                    [via |-> "native", page |-> r.features[k].page, task |-> 0]]
           /\ ocr_tasks' = ocr_tasks \o
                [k \in DOMAIN r.ocr_tasks |-> [page_num |-> r.ocr_tasks[k]]]
           /\ o_pc' = IF r.ocr_tasks = <<>> THEN "write" ELSE "submit"
    /\ UNCHANGED <<doc, submitted, fut, collected, log, output>>
    /\ UNCHANGED <<outlineVars, flatVars, callVars, fileVars>>

\* one iteration of the submit loop (lines 160-166)
Submit ==
    /\ o_pc = "submit"
    /\ submitted < Len(ocr_tasks)
    /\ submitted' = submitted + 1
    /\ fut' = Append(fut, [state |-> "pending", result |-> <<>>])
    /\ o_pc' = IF submitted' = Len(ocr_tasks) THEN "collect" ELSE "submit"
    /\ UNCHANGED <<doc, features, origin, ocr_tasks, collected, log, output>>
    /\ UNCHANGED <<outlineVars, flatVars, callVars, fileVars>>

\* a free worker takes a pending task
StartTask(t) ==
    /\ fut[t].state = "pending"
    /\ Cardinality(Running) < Workers
    /\ fut' = [fut EXCEPT ![t].state = "running"]
    /\ UNCHANGED <<doc, o_pc, features, origin, ocr_tasks, submitted,
                   collected, log, output>>
    /\ UNCHANGED <<outlineVars, flatVars, callVars, fileVars>>

\* a worker that appends its lines to the shared list before returning
FinishTaskWritesShared(t) ==
    /\ fut[t].state = "running"
    /\ fut' = [fut EXCEPT ![t] =
                [state |-> "done", result |-> OcrPage(doc, ocr_tasks[t].page_num)]]
    /\ features' = features \o OcrPage(doc, ocr_tasks[t].page_num)
    /\ origin' = origin \o
         [k \in DOMAIN OcrPage(doc, ocr_tasks[t].page_num) |->
            [via |-> "ocr", page |-> ocr_tasks[t].page_num, task |-> t]]
    /\ UNCHANGED <<doc, o_pc, ocr_tasks, submitted, collected, log, output>>
    /\ UNCHANGED <<outlineVars, flatVars, callVars, fileVars>>

\* ocr_page returns in its worker
FinishTask(t) ==
    /\ fut[t].state = "running"
    /\ fut' = [fut EXCEPT ![t] =
                [state |-> "done", result |-> OcrPage(doc, ocr_tasks[t].page_num)]]
    /\ UNCHANGED <<doc, o_pc, features, origin, ocr_tasks, submitted,
                   collected, log, output>>
    /\ UNCHANGED <<outlineVars, flatVars, callVars, fileVars>>

\* ocr_page raises in its worker
FailTask(t) ==
    /\ fut[t].state = "running"
    /\ fut' = [fut EXCEPT ![t].state = "failed"]
    /\ UNCHANGED <<doc, o_pc, features, origin, ocr_tasks, submitted,
                   collected, log, output>>
    /\ UNCHANGED <<outlineVars, flatVars, callVars, fileVars>>

Handled == {collected[k] : k \in DOMAIN collected}

\* a loop that waits for the futures in the order of submission
CollectDoneInOrder(t) ==
    /\ o_pc = "collect"
    /\ t = Len(collected) + 1
    /\ fut[t].state = "done"
    /\ features' = features \o fut[t].result
    /\ origin' = origin \o
         [k \in DOMAIN fut[t].result |->
            [via |-> "ocr", page |-> ocr_tasks[t].page_num, task |-> t]]
    /\ log' = Append(log, [msg |-> "completed", task |-> t])
    /\ collected' = Append(collected, t)
    /\ UNCHANGED <<doc, o_pc, ocr_tasks, submitted, fut, output>>
    /\ UNCHANGED <<outlineVars, flatVars, callVars, fileVars>>

\* as_completed yields a future that returned (lines 169-173)
CollectDone(t) ==
    /\ o_pc = "collect"
    /\ t \notin Handled
    /\ fut[t].state = "done"
    /\ features' = features \o fut[t].result
    /\ origin' = origin \o
         [k \in DOMAIN fut[t].result |->
            [via |-> "ocr", page |-> ocr_tasks[t].page_num, task |-> t]]
    /\ log' = Append(log, [msg |-> "completed", task |-> t])
    /\ collected' = Append(collected, t)
    /\ UNCHANGED <<doc, o_pc, ocr_tasks, submitted, fut, output>>
    /\ UNCHANGED <<outlineVars, flatVars, callVars, fileVars>>

\* the handler without its except clause: the exception leaves main
CollectFailedPropagates(t) ==
    /\ o_pc = "collect"
    /\ t \notin Handled
    /\ fut[t].state = "failed"
    /\ o_pc' = "raised"
    /\ UNCHANGED <<doc, features, origin, ocr_tasks, submitted, fut,
                   collected, log, output>>
    /\ UNCHANGED <<outlineVars, flatVars, callVars, fileVars>>

\* as_completed yields a future that raised (lines 169-175)
CollectFailed(t) ==
    /\ o_pc = "collect"
    /\ t \notin Handled
    /\ fut[t].state = "failed"
    /\ log' = Append(log, [msg |-> "failed", task |-> t])
    /\ collected' = Append(collected, t)
    /\ UNCHANGED <<doc, o_pc, features, origin, ocr_tasks, submitted, fut,
                   output>>
    /\ UNCHANGED <<outlineVars, flatVars, callVars, fileVars>>

\* a loop that may end while futures are outstanding
ExitPoolEarly ==
    /\ o_pc = "collect"
    /\ o_pc' = "write"
    /\ UNCHANGED <<doc, features, origin, ocr_tasks, submitted, fut,
                   collected, log, output>>
    /\ UNCHANGED <<outlineVars, flatVars, callVars, fileVars>>

\* as_completed is exhausted and the `with` block ends
ExitPool ==
    /\ o_pc = "collect"
    /\ Handled = DOMAIN fut
    /\ o_pc' = "write"
    /\ UNCHANGED <<doc, features, origin, ocr_tasks, submitted, fut,
                   collected, log, output>>
    /\ UNCHANGED <<outlineVars, flatVars, callVars, fileVars>>

\* json.dump(all_features, f) (lines 177-182)
WriteOutput ==
    /\ o_pc = "write"
    /\ output' = features
    /\ o_pc' = "done"
    /\ UNCHANGED <<doc, features, origin, ocr_tasks, submitted, fut,
                   collected, log>>
    /\ UNCHANGED <<outlineVars, flatVars, callVars, fileVars>>

-----------------------------------------------------------------------------
(* extract_lines_from_pdf (utils/pdf_util.py).  Coordinates, sizes and     *)
(* page dimensions are integers; a value that the code rounds to two       *)
(* decimals is written in hundredths.                                      *)

Digits == {"0", "1", "2", "3", "4", "5", "6", "7", "8", "9"}
Letters ==
    {"a", "b", "c", "d", "e", "f", "g", "h", "i", "j", "k", "l", "m",
     "n", "o", "p", "q", "r", "s", "t", "u", "v", "w", "x", "y", "z",
     "A", "B", "C", "D", "E", "F", "G", "H", "I", "J", "K", "L", "M",
     "N", "O", "P", "Q", "R", "S", "T", "U", "V", "W", "X", "Y", "Z"}

\* re.sub(r'[^A-Za-z0-9]', '', text.strip())
CleanText(text) ==
    SelectSeq(Strip(text), LAMBDA c : c \in Letters \cup Digits)

\* "".join([span["text"] for span in line["spans"]]).strip()
LineText(line) ==
    Strip(Concat([k \in DOMAIN line.spans |-> line.spans[k].text]))

\* the lines of the blocks that have a "lines" key, in the renderer's order
RendererLines(blocks) ==
    Concat([b \in DOMAIN blocks |->
        IF "lines" \in DOMAIN blocks[b] THEN blocks[b].lines ELSE <<>>])

\* neither `if not text` nor `if len(cleaned) < 3` skips the line
KeptLine(line) ==
    LineText(line) # <<>> /\ Len(CleanText(LineText(line))) >= 3

\* the dict appended for a kept line: geometry and size of its first span
RawLine(line, page, page_num) ==
    LET span == line.spans[1]
    IN  [text        |-> LineText(line),
         font_size   |-> span.size,
         x0          |-> span.bbox[1],
         x1          |-> span.bbox[3],
         width       |-> span.bbox[3] - span.bbox[1],
         y0          |-> span.bbox[2],
         y1          |-> span.bbox[4],
         page        |-> page_num,
         page_width  |-> page.width,
         page_height |-> page.height]

PageRawLines(page, page_num) ==
    LET kept == SelectSeq(RendererLines(page.blocks), KeptLine)
    IN  [k \in DOMAIN kept |-> RawLine(kept[k], page, page_num)]

\* lines.sort(key=lambda l: l["y0"]): stable, so lines of equal y0 keep the
\* order in which they were appended
RECURSIVE SortByY0(_)
SortByY0(ls) ==
    IF ls = <<>> THEN <<>>
    ELSE LET rest == SortByY0(SubSeq(ls, 1, Len(ls) - 1))
             x    == ls[Len(ls)]
             n    == Cardinality({k \in DOMAIN rest : rest[k].y0 <= x.y0})
         IN  SubSeq(rest, 1, n) \o <<x>> \o SubSeq(rest, n + 1, Len(rest))

\* a float: finite (in hundredths), or one of IEEE's inf and nan
Finite(h) == [kind |-> "finite", hundredths |-> h]
Inf == [kind |-> "inf", hundredths |-> 0]
NaN == [kind |-> "nan", hundredths |-> 0]

\* round(n / d, 2) for n >= 0 and d > 0, in hundredths (round half to even)
Round2(n, d) ==
    LET q == (100 * n) \div d
        r == (100 * n) % d
    IN  IF 2 * r < d THEN q
        ELSE IF 2 * r > d THEN q + 1
        ELSE IF q % 2 = 0 THEN q ELSE q + 1

\* round(n / d, 2) where d is a numpy float64: a zero denominator gives
\* inf or nan (with a RuntimeWarning), not an exception
NumpyRatio(n, d) ==
    IF d = 0 THEN (IF n = 0 THEN NaN ELSE Inf) ELSE Finite(Round2(n, d))

Abs(n) == IF n < 0 THEN -n ELSE n

\* re.match(r'^[0-9]+(\.[0-9]+)*', text): the text starts with a digit
HasNumericPrefix(text) == text # <<>> /\ Head(text) \in Digits

\* `np.median(font_sizes) if font_sizes else 1.0`
PageMedianFont(ls) ==
    IF ls = <<>> THEN 1 ELSE Median([k \in DOMAIN ls |-> ls[k].font_size])

\* a float division of the loop at lines 56-74 has a zero denominator
PageRaises(ls) ==
    \E k \in DOMAIN ls :
        \/ k > 1 /\ ls[k - 1].font_size = 0
        \/ ls[k].page_width = 0
        \/ ls[k].page_height = 0

\* the dict `features` of line k of a page (lines 57-72)
PageLineFeatures(ls, k, median_font) ==
    LET line == ls[k]
    IN  [y_position         |-> 100 * line.y0,
         width_ratio        |-> Round2(line.width, line.page_width),
         vertical_gap       |-> IF k > 1 THEN 100 * (line.y0 - ls[k - 1].y1)
                                ELSE 0,
         font_size_ratio    |-> NumpyRatio(line.font_size, median_font),
         has_numeric_prefix |-> IF HasNumericPrefix(line.text) THEN 1 ELSE 0,
         word_count         |-> WordCount(Strip(line.text)),
         center_deviation   |->
            Round2(Abs(line.page_width - 2 * line.x0 - line.width),
                   2 * line.page_width),
         size_vs_prev       |-> IF k > 1
                                THEN Round2(line.font_size, ls[k - 1].font_size)
                                ELSE 100,
         page_top_distance  |-> Round2(line.y0, line.page_height)]

\* dict.update: the keys of b are added to a
Update(a, b) ==
    [k \in DOMAIN a \cup DOMAIN b |-> IF k \in DOMAIN b THEN b[k] ELSE a[k]]

\* the list `lines` of one page after the sort
PageSorted(page, page_num) == SortByY0(PageRawLines(page, page_num))

\* the list `lines` of one page when it is added to all_lines (no division
\* raised)
PageLines(page, page_num) ==
    LET ls == PageSorted(page, page_num)
    IN  [k \in DOMAIN ls |->
            Update(ls[k], PageLineFeatures(ls, k, PageMedianFont(ls)))]

-----------------------------------------------------------------------------
(* document_to_feature_sequence (utils/feature_utils.py) *)

\* a float division of line_to_features has a zero denominator for some line
FeaturesRaise(ls) ==
    \E k \in DOMAIN ls :
        \/ k > 1 /\ ls[k - 1].font_size = 0
        \/ ls[k].page_width = 0
        \/ ls[k].page_height = 0

\* line_to_features(lines, i, median_font_size), k = i + 1
LineToFeatures(ls, k, median_font_size) ==
    LET line == ls[k]
    IN  [y_position         |-> line.y_position,
         width_ratio        |-> Round2(line.width, line.page_width),
         vertical_gap       |-> IF "space_before" \in DOMAIN line
                                THEN 100 * line.space_before ELSE 0,
         font_size_ratio    |-> NumpyRatio(line.font_size, median_font_size),
         has_numeric_prefix |-> HasNumericPrefix(Strip(line.text)),
         word_count         |-> WordCount(line.text),
         center_deviation   |->
            Round2(Abs(2 * line.x0 - line.page_width), line.page_width),
         size_vs_prev       |-> IF k > 1
                                THEN Round2(line.font_size, ls[k - 1].font_size)
                                ELSE 100,
         page_top_distance  |-> Round2(line.y_position, 100 * line.page_height)]

\* compute_median_font_size; on an empty list np.median gives nan, which the
\* empty comprehension never uses
DocMedianFont(ls) == Median([k \in DOMAIN ls |-> ls[k].font_size])

\* the returned list (no division raised)
FeatureSequence(ls) ==
    [k \in DOMAIN ls |-> LineToFeatures(ls, k, DocMedianFont(ls))]

-----------------------------------------------------------------------------
(* predict_outline_for_file (taska_output.py) *)

\* a check that never finds the list empty
NoLinesNever(ls) == FALSE

\* `if not lines`
NoLines(ls) == ls = <<>>

\* the dict returned by the except clause
FailedResult(path) == [title |-> FallbackTitle(path), outline |-> <<>>]

\* lines 31-38: the entries of the pairs whose label is not "BODY"
RECURSIVE FileOutline(_, _, _)
FileOutline(ls, lbs, k) ==
    IF k > ZipLen(ls, lbs) THEN <<>>
    ELSE (IF lbs[k] # "BODY"
          THEN <<[level |-> Upper(lbs[k]), text |-> Strip(ls[k].text),
                  page |-> ls[k].page]>>
          ELSE <<>>)
         \o FileOutline(ls, lbs, k + 1)

\* the label sequences the model returns for n records: one label per
\* record, or (an interface error) one label fewer or one more
PredictedLabels(n) ==
    {[k \in 1..n |-> l] : l \in Labels}
        \cup {[k \in 1..n |-> IF k % 2 = 1 THEN "H1" ELSE "BODY"]}
        \cup {[k \in 1..m |-> "H1"] : m \in {n - 1, n + 1} \cap Nat}

\* one iteration of the page loop of extract_lines_from_pdf; an exception
\* leaves the call through the except clause of predict_outline_for_file
ExtractPage ==
    /\ f_pc = "extract"
    /\ f_page < Len(f_doc)
    /\ IF PageRaises(PageSorted(f_doc[f_page + 1], f_page))
       THEN /\ f_error' = "ZeroDivisionError"
            /\ f_result' = FailedResult(f_path)
            /\ f_pc' = "done"
            /\ UNCHANGED <<f_page, f_lines>>
       ELSE /\ f_lines' = f_lines \o PageLines(f_doc[f_page + 1], f_page)
            /\ f_page' = f_page + 1
            /\ UNCHANGED <<f_pc, f_result, f_error>>
    /\ UNCHANGED <<f_doc, f_path, f_records, f_labels>>
    /\ UNCHANGED <<outlineVars, flatVars, ocrVars, callVars>>

\* `return all_lines`, then `if not lines: raise ValueError(...)`
LinesReturned ==
    /\ f_pc = "extract"
    /\ f_page = Len(f_doc)
    /\ IF NoLines(f_lines)
       THEN /\ f_error' = "No lines extracted from PDF."
            /\ f_result' = FailedResult(f_path)
            /\ f_pc' = "done"
       ELSE /\ f_pc' = "features"
            /\ UNCHANGED <<f_result, f_error>>
    /\ UNCHANGED <<f_doc, f_path, f_page, f_lines, f_records, f_labels>>
    /\ UNCHANGED <<outlineVars, flatVars, ocrVars, callVars>>

\* `features = document_to_feature_sequence(lines)`
ComputeFeatures ==
    /\ f_pc = "features"
    /\ IF FeaturesRaise(f_lines)
       THEN /\ f_error' = "ZeroDivisionError"
            /\ f_result' = FailedResult(f_path)
            /\ f_pc' = "done"
            /\ UNCHANGED f_records
       ELSE /\ f_records' = FeatureSequence(f_lines)
            /\ f_pc' = "predict"
            /\ UNCHANGED <<f_result, f_error>>
    /\ UNCHANGED <<f_doc, f_path, f_page, f_lines, f_labels>>
    /\ UNCHANGED <<outlineVars, flatVars, ocrVars, callVars>>

\* `labels = model.predict_single(features)`: one label for every record
PredictLabels ==
    /\ f_pc = "predict"
    /\ \E lbs \in PredictedLabels(Len(f_records)) : f_labels' = lbs
    /\ f_pc' = "outline"
    /\ UNCHANGED <<f_doc, f_path, f_page, f_lines, f_records, f_result, f_error>>
    /\ UNCHANGED <<outlineVars, flatVars, ocrVars, callVars>>

\* `labels = model.predict_single(features)` raises: the except clause
\* reports the file and returns the empty outline
PredictRaises ==
    /\ f_pc = "predict"
    /\ f_error' = "ModelError"
    /\ f_result' = FailedResult(f_path)
    /\ f_pc' = "done"
    /\ UNCHANGED <<f_doc, f_path, f_page, f_lines, f_records, f_labels>>
    /\ UNCHANGED <<outlineVars, flatVars, ocrVars, callVars>>

\* lines 31-43: the flat outline and the return
ReturnResult ==
    /\ f_pc = "outline"
    /\ f_result' = [title   |-> FallbackTitle(f_path),
                    outline |-> FileOutline(f_lines, f_labels, 1)]
    /\ f_pc' = "done"
    /\ UNCHANGED <<f_doc, f_path, f_page, f_lines, f_records, f_labels, f_error>>
    /\ UNCHANGED <<outlineVars, flatVars, ocrVars, callVars>>

-----------------------------------------------------------------------------
(* extract_lines_from_pdf (scripts/utils/pdf_util.py) *)

\* the dicts appended for the lines of the text blocks of one page, given
\* the renderer lines still to visit and prev_bottom_y; an optional number
\* is written as a sequence of at most one element (None is the empty one)
RECURSIVE ScriptsLines(_, _, _, _)
ScriptsLines(rls, page, page_num, prev_bottom_y) ==
    IF rls = <<>> THEN <<>>
    ELSE LET line == Head(rls)
         IN  IF line.spans = <<>> \/ LineText(line) = <<>>
             THEN ScriptsLines(Tail(rls), page, page_num, prev_bottom_y)
             ELSE <<[text         |-> LineText(line),
                     font         |-> line.spans[1].font,
                     font_size    |-> line.spans[1].size,
                     flags        |-> line.spans[1].flags,
                     bbox         |-> line.bbox,
                     x0           |-> line.bbox[1],
                     y0           |-> line.bbox[2],
                     x1           |-> line.bbox[3],
                     y1           |-> line.bbox[4],
                     width        |-> line.bbox[3] - line.bbox[1],
                     page_num     |-> page_num,
                     page_width   |-> page.width,
                     page_height  |-> page.height,
                     space_before |-> IF prev_bottom_y # <<>>
                                      THEN <<line.bbox[2] - prev_bottom_y[1]>>
                                      ELSE <<>>]>>
                  \o ScriptsLines(Tail(rls), page, page_num, <<line.bbox[4]>>)

\* the lines of the blocks of type 0, in the renderer's order
TextBlockLines(blocks) ==
    Concat([b \in DOMAIN blocks |->
        IF blocks[b].type = 0 THEN blocks[b].lines ELSE <<>>])

\* one iteration of the page loop
ScriptsExtractPage ==
    /\ f_pc = "scripts"
    /\ f_page < Len(f_doc)
    /\ f_lines' = f_lines \o ScriptsLines(TextBlockLines(f_doc[f_page + 1].blocks),
                                          f_doc[f_page + 1], f_page, <<>>)
    /\ f_page' = f_page + 1
    /\ UNCHANGED <<f_doc, f_path, f_pc, f_records, f_labels, f_result, f_error>>
    /\ UNCHANGED <<outlineVars, flatVars, ocrVars, callVars>>

\* `return all_lines`
ScriptsReturn ==
    /\ f_pc = "scripts"
    /\ f_page = Len(f_doc)
    /\ f_pc' = "returned"
    /\ UNCHANGED <<f_doc, f_path, f_page, f_lines, f_records, f_labels, f_result, f_error>>
    /\ UNCHANGED <<outlineVars, flatVars, ocrVars, callVars>>

-----------------------------------------------------------------------------
(* Inputs *)

IdleOutline ==
    /\ lines = <<>> /\ labels = <<>> /\ pc = "idle" /\ i = 0
    /\ entries = <<>> /\ outline = <<>> /\ stack = <<>>
    /\ run = 0 /\ first_tree = None

IdleFlat ==
    /\ g_lines = <<>> /\ g_labels = <<>> /\ g_path = <<>> /\ g_pc = "idle"
    /\ g_title = None /\ g_outline = <<>>

IdleOcr ==
    /\ doc = <<>> /\ o_pc = "idle" /\ features = <<>> /\ origin = <<>>
    /\ ocr_tasks = <<>> /\ submitted = 0 /\ fut = <<>> /\ collected = <<>>
    /\ log = <<>> /\ output = None

IdleFile ==
    /\ f_doc = <<>> /\ f_path = <<>> /\ f_pc = "idle" /\ f_page = 0 /\ f_lines = <<>>
    /\ f_records = <<>> /\ f_labels = <<>> /\ f_result = None
    /\ f_error = None

\* the texts of the lines given to build_outline
TextPadded == <<" ", "A", " ">>
OutlineTexts == {TextPadded, Bullet, <<>>}

\* the lines of one page follow those of the page before
PagesAscend(ls) == \A k \in 1..(Len(ls) - 1) : ls[k].page <= ls[k + 1].page

OutlineLines(n) ==
    {ls \in [1..n -> [text : OutlineTexts, page : {0, 1}]] : PagesAscend(ls)}

\* seven lines of one document
ScenarioTexts ==
    << <<"D", "o", "c">>,
       <<"1", ".", " ", "I", "n", "t", "r", "o">>,
       <<"h", "e", "l", "l", "o">>,
       <<"1", ".", "1", " ", "S", "u", "b">>,
       <<"w", "o", "r", "l", "d">>,
       <<"2", ".", " ", "N", "e", "x", "t">>,
       <<"b", "y", "e">> >>
ScenarioLabels == <<"TITLE", "H1", "BODY", "H2", "BODY", "H1", "BODY">>
ScenarioLines == [k \in 1..7 |-> [text |-> ScenarioTexts[k], page |-> k \div 4]]

InitOutline ==
    /\ \/ \E n \in 0..MaxLines :
            /\ lines \in OutlineLines(n)
            /\ labels \in [1..n -> Labels]
       \/ lines = ScenarioLines /\ labels = ScenarioLabels
    /\ pc = "loop" /\ i = 0
    /\ entries = <<>> /\ outline = <<>> /\ stack = <<>>
    /\ run = 1 /\ first_tree = None

\* the texts of the lines given to generate_flat_outline
FourWordsPadded == <<" ", "a", " ", "b", " ", "c", " ", "d", " ">>
FourOther == <<"w", " ", "x", " ", "y", " ", "z">>
ThreeWords == <<"e", " ", "f", " ", "g">>
QuarterlyReportSummary ==
    <<"Q", "u", "a", "r", "t", "e", "r", "l", "y", " ", "R", "e", "p", "o", "r", "t", " ", "S", "u", "m", "m", "a", "r", "y">>
FlatTexts == {FourWordsPadded, FourOther, ThreeWords, Bullet}

FlatLines(n) ==
    {[k \in 1..n |-> [text |-> f[k], page_num |-> (k - 1) \div 2]] :
        f \in [1..n -> FlatTexts]}

PathInDir == <<"i", "n", "/", "r", ".", "p", "d", "f">>
PathBare == <<"q", ".", "p", "d", "f">>
FlatPaths == {PathInDir, PathBare}

TitleScenarioLines ==
    << [text |-> Bullet, page_num |-> 0],
       [text |-> QuarterlyReportSummary, page_num |-> 0] >>

InitFlat ==
    /\ \/ \E n \in 0..MaxFlatLines :
            /\ g_lines \in FlatLines(n)
            /\ g_labels \in [1..n -> Labels]
       \/ /\ g_lines = TitleScenarioLines
          /\ g_labels \in [1..2 -> {"H1", "H2", "H3"}]
    /\ g_path \in FlatPaths
    /\ g_pc = "title" /\ g_title = None /\ g_outline = <<>>

\* the pages of the documents given to main
Span(text, size, bbox) == [text |-> text, size |-> size, bbox |-> bbox]
Word(text, key, left, top, width, height) ==
    [text |-> text, block_num |-> key[1], par_num |-> key[2], line_num |-> key[3],
     left |-> left, top |-> top, width |-> width, height |-> height]

TextBlock(ls) == [type |-> 0, lines |-> ls]
ImageBlock == [type |-> 1]

\* a page with one line of native text
TextPage ==
    [blocks |-> <<TextBlock(<<[spans |-> <<Span(<<"I", "n", "t", "r", "o">>, 24, <<10, 20, 60, 32>>)>>]>>)>>,
     raster |-> <<>>]
\* a page whose text layer holds a single space
SpacePage ==
    [blocks |-> <<TextBlock(<<[spans |-> <<Span(<<" ">>, 24, <<10, 20, 14, 32>>)>>]>>)>>,
     raster |-> <<Word(<<"S", "c", "a", "n">>, <<1, 1, 1>>, 10, 20, 40, 12)>>]
\* a scanned page: one image block, the engine reads one line of two words
RevenuePage ==
    [blocks |-> <<ImageBlock>>,
     raster |-> <<Word(<<"R", "e", "v", "e", "n", "u", "e">>, <<1, 1, 1>>, 10, 20, 70, 12),
                  Word(<<"2", "0", "2", "3">>, <<1, 1, 1>>, 90, 21, 40, 12)>>]
\* a scanned page on which the engine reads two lines and an empty word
TwoLinePage ==
    [blocks |-> <<ImageBlock>>,
     raster |-> <<Word(<<"N", "e", "t">>, <<1, 1, 1>>, 10, 20, 30, 12),
                  Word(<<" ">>, <<1, 1, 1>>, 0, 0, 0, 0),
                  Word(<<"T", "a", "x">>, <<1, 1, 2>>, 10, 40, 30, 12)>>]
\* a page without blocks, on which the engine reads nothing
EmptyPage == [blocks |-> <<>>, raster |-> <<>>]

Pages == {TextPage, SpacePage, RevenuePage, TwoLinePage, EmptyPage}

InitOcr ==
    /\ \E n \in 1..MaxPages : doc \in [1..n -> Pages]
    /\ o_pc = "extract" /\ features = <<>> /\ origin = <<>>
    /\ ocr_tasks = <<>> /\ submitted = 0 /\ fut = <<>> /\ collected = <<>>
    /\ log = <<>> /\ output = None

\* the pages of the documents given to predict_outline_for_file
FSpan(text, size, bbox) ==
    [text |-> text, size |-> size, bbox |-> bbox, font |-> "Helvetica",
     flags |-> 0]
RLine(spans, bbox) == [spans |-> spans, bbox |-> bbox]
FPage(blocks) == [width |-> 600, height |-> 800, blocks |-> blocks]

\* "1. Intro" in two spans
IntroLine ==
    RLine(<<FSpan(<<"1", ".", " ", "I", "n">>, 12, <<12, 24, 44, 36>>),
            FSpan(<<"t", "r", "o">>, 12, <<44, 24, 72, 36>>)>>,
          <<12, 24, 72, 36>>)
\* a line at the same height, further right
RightLine ==
    RLine(<<FSpan(<<"R", "i", "g", "h", "t">>, 12, <<210, 24, 270, 36>>)>>,
          <<210, 24, 270, 36>>)
BodyLine ==
    RLine(<<FSpan(<<"B", "o", "d", "y", " ", "t", "e", "x", "t">>, 10,
                  <<12, 64, 132, 74>>)>>,
          <<12, 64, 132, 74>>)
\* two alphanumeric characters
ShortLine ==
    RLine(<<FSpan(<<"a", ".", "b">>, 10, <<12, 40, 30, 50>>)>>,
          <<12, 40, 30, 50>>)
SpaceLine ==
    RLine(<<FSpan(<<" ">>, 10, <<12, 48, 18, 58>>)>>, <<12, 48, 18, 58>>)
\* a line whose font size is 0
ZeroLine ==
    RLine(<<FSpan(<<"Z", "e", "r", "o">>, 0, <<12, 40, 60, 40>>)>>,
          <<12, 40, 60, 40>>)

PlainPage == FPage(<<TextBlock(<<IntroLine, BodyLine>>)>>)
\* the blocks arrive bottom first, and the right line before the left one
UnsortedPage ==
    FPage(<<TextBlock(<<BodyLine>>), ImageBlock,
            TextBlock(<<RightLine, IntroLine>>)>>)
\* a page without a qualifying line
JunkPage == FPage(<<TextBlock(<<ShortLine, SpaceLine>>)>>)
ImagePage == FPage(<<ImageBlock>>)
ZeroFirstPage == FPage(<<TextBlock(<<ZeroLine, BodyLine>>)>>)
ZeroOnlyPage == FPage(<<TextBlock(<<ZeroLine>>)>>)

FilePages ==
    {PlainPage, UnsortedPage, JunkPage, ImagePage, ZeroFirstPage, ZeroOnlyPage}

InitFile ==
    /\ \E n \in 1..MaxPages : f_doc \in [1..n -> FilePages]
    /\ f_path \in FlatPaths
    /\ f_pc = "extract" /\ f_page = 0 /\ f_lines = <<>>
    /\ f_records = <<>> /\ f_labels = <<>> /\ f_result = None
    /\ f_error = None

InitScripts ==
    /\ \E n \in 1..MaxPages : f_doc \in [1..n -> FilePages]
    /\ f_path = PathBare
    /\ f_pc = "scripts" /\ f_page = 0 /\ f_lines = <<>>
    /\ f_records = <<>> /\ f_labels = <<>> /\ f_result = None
    /\ f_error = None

-----------------------------------------------------------------------------
(* Specifications *)

\* build_outline
Init == InitOutline /\ IdleFlat /\ IdleOcr /\ IdleFile
Next == BodyStep \/ HeadingStep \/ ReturnOutline
Spec == Init /\ [][Next]_vars

\* build_outline called twice on the same arguments
InitTwice ==
    /\ Init
    /\ \A k \in DOMAIN lines : lines[k].text # <<>>
NextTwice == BodyStep \/ HeadingStep \/ ReturnOutline \/ CallAgain
SpecTwice == InitTwice /\ [][NextTwice]_vars

\* generate_flat_outline
InitFlatSpec == IdleOutline /\ InitFlat /\ IdleOcr /\ IdleFile
NextFlat == ResolveTitle \/ CollectFlatOutline
SpecFlat == InitFlatSpec /\ [][NextFlat]_vars

\* parallel_parsing_pdf.main
InitOcrSpec == IdleOutline /\ IdleFlat /\ InitOcr /\ IdleFile
NextOcr ==
    \/ Extract
    \/ Submit
    \/ \E t \in DOMAIN fut : StartTask(t)
    \/ \E t \in DOMAIN fut : FinishTask(t)
    \/ \E t \in DOMAIN fut : FailTask(t)
    \/ \E t \in DOMAIN fut : CollectDone(t)
    \/ \E t \in DOMAIN fut : CollectFailed(t)
    \/ ExitPool
    \/ WriteOutput
SpecOcr == InitOcrSpec /\ [][NextOcr]_vars

\* main under the scheduling of its own process: the submit loop and the
\* as_completed loop go on whenever they can, the workers owe nothing
MainProgress ==
    /\ WF_vars(Submit)
    /\ \A t \in 1..MaxPages : WF_vars(t \in DOMAIN fut /\ CollectDone(t))
    /\ \A t \in 1..MaxPages : WF_vars(t \in DOMAIN fut /\ CollectFailed(t))
\* the order of the steps does not depend on what the pages hold: documents
\* of pages with native text and of scanned pages
SchedPages == {TextPage, RevenuePage}
InitOcrSched == InitOcrSpec /\ \A k \in DOMAIN doc : doc[k] \in SchedPages
SpecOcrCollect == InitOcrSched /\ [][NextOcr]_vars /\ MainProgress

\* main when, besides, every submitted job returns or raises in the end
SpecOcrFair == InitOcrSched /\ [][NextOcr]_vars /\ WF_vars(NextOcr)

\* predict_outline_for_file
InitFileSpec == IdleOutline /\ IdleFlat /\ IdleOcr /\ InitFile
NextFile ==
    \/ ExtractPage
    \/ LinesReturned
    \/ ComputeFeatures
    \/ PredictLabels
    \/ PredictRaises
    \/ ReturnResult
SpecFile == InitFileSpec /\ [][NextFile]_vars

\* extract_lines_from_pdf of scripts/utils
InitScriptsSpec == IdleOutline /\ IdleFlat /\ IdleOcr /\ InitScripts
NextScripts == ScriptsExtractPage \/ ScriptsReturn
SpecScripts == InitScriptsSpec /\ [][NextScripts]_vars

-----------------------------------------------------------------------------
(* Claims about build_outline (specification Spec) *)

Range(q) == {q[k] : k \in DOMAIN q}

\* the text between its first and last non-whitespace characters
Trimmed(s) ==
    LET ink == {k \in 1..Len(s) : s[k] \notin Whitespace}
    IN  IF ink = {} THEN <<>>
        ELSE SubSeq(s, CHOOSE a \in ink : \A k \in ink : a <= k,
                       CHOOSE b \in ink : \A k \in ink : k <= b)

\* the structural order of the levels: TITLE < H1 < H2 < H3
Rank(level) ==
    CASE level = "TITLE" -> 0
      [] level = "H1"    -> 1
      [] level = "H2"    -> 2
      [] level = "H3"    -> 3
      [] OTHER           -> 4

\* the ids under the "children" key of an entry, and the texts under "content"
ChildrenOf(e) == IF "children" \in DOMAIN e THEN e.children ELSE <<>>
ContentOf(e)  == IF "content" \in DOMAIN e THEN e.content ELSE <<>>

\* C1: after every step the levels on the open-heading stack increase strictly
\* from bottom to top in the order TITLE < H1 < H2 < H3, and every node of the
\* tree is strictly deeper than its parent.
C1_NestingStructural ==
    /\ \A k \in 1..(Len(stack) - 1) :
          Rank(entries[stack[k]].level) < Rank(entries[stack[k + 1]].level)
    /\ \A p \in DOMAIN entries : \A c \in Range(ChildrenOf(entries[p])) :
          Rank(entries[p].level) < Rank(entries[c].level)

\* C2: on the seven-line scenario the root has exactly the two H1 children
\* "1. Intro" and "2. Next"; the first holds content ["hello"] and the single
\* H2 child "1.1 Sub" with content ["world"]; the second holds content ["bye"].
C2_ScenarioTree ==
    (pc = "done" /\ lines = ScenarioLines /\ labels = ScenarioLabels) =>
        /\ Len(outline) = 2
        /\ LET first  == entries[outline[1]]
               second == entries[outline[2]]
           IN  /\ first.level = "H1" /\ first.text = ScenarioTexts[2]
               /\ second.level = "H1" /\ second.text = ScenarioTexts[6]
               /\ ContentOf(first) = <<ScenarioTexts[3]>>
               /\ Len(ChildrenOf(first)) = 1
               /\ LET sub == entries[ChildrenOf(first)[1]]
                  IN  /\ sub.level = "H2" /\ sub.text = ScenarioTexts[4]
                      /\ ContentOf(sub) = <<ScenarioTexts[5]>>
               /\ ContentOf(second) = <<ScenarioTexts[7]>>

\* every text held in a content list of the tree (the root is the plain list
\* `outline`: it has no content list of its own)
AttachedTexts == UNION {Range(ContentOf(entries[n])) : n \in DOMAIN entries}

C10_TitleNeverNode ==
    /\ \A n \in DOMAIN entries : entries[n].level # "TITLE"
    /\ \A k \in DOMAIN stack : entries[stack[k]].level # "TITLE"

\* the heading pair the loop is about to consume, and its level
AtHeading == pc = "loop" /\ i < ZipLen(lines, labels) /\ labels[i + 1] # "BODY"
NextLevel == Upper(labels[i + 1])

\* C11: a heading for which no strictly shallower heading (in the order
\* TITLE < H1 < H2 < H3) is open on the stack is appended to the root list.
C11_OrphanAtRoot ==
    [][(AtHeading /\ \A k \in DOMAIN stack :
                        Rank(entries[stack[k]].level) >= Rank(NextLevel))
        => outline' = Append(outline, Len(entries) + 1)]_vars

\* C12: a line whose trimmed text is empty or the bare bullet glyph is
\* skipped whatever its label: consuming it changes neither the entries, nor
\* the root list, nor the stack.
C12_BlankSkipped ==
    [][(pc = "loop" /\ i < ZipLen(lines, labels)
        /\ Trimmed(lines[i + 1].text) \in {<<>>, Bullet})
        => (i' = i + 1 /\ entries' = entries /\ outline' = outline
            /\ stack' = stack)]_vars

\* C13: called with no lines and no labels, build_outline does not raise: it
\* can always return, and it returns the empty list.
C13_EmptyInput ==
    (lines = <<>> /\ labels = <<>>) =>
        /\ (pc = "loop" => ENABLED ReturnOutline)
        /\ (pc = "done" => (outline = <<>> /\ entries = <<>> /\ stack = <<>>))

\* the call on the empty input has returned
C13_Witness ==
    /\ pc = "done" /\ run = 1 /\ lines = <<>> /\ labels = <<>>
    /\ outline = <<>>

\* C24: an entry that is off the stack stays off the stack and is not
\* modified again (it receives no further child); every step of the loop
\* consumes the next pair, and a new entry is made from the line just
\* consumed.
C24_ClosedStayClosed ==
    [][/\ \A id \in DOMAIN entries :
            id \notin Range(stack) => id \notin Range(stack')
       /\ \A id \in DOMAIN entries :
            id \notin Range(stack') => entries'[id] = entries[id]
       /\ pc' = "loop" =>
            /\ i' = i + 1
            /\ Len(entries') \in {Len(entries), Len(entries) + 1}
            /\ Len(entries') = Len(entries) + 1 =>
                  /\ entries'[Len(entries')].text = Strip(lines[i'].text)
                  /\ stack'[Len(stack')] = Len(entries')]_vars

\* two entries were closed, the first one holding a child, and a third
\* heading was opened after them
C24_Witness ==
    /\ pc = "done" /\ Len(entries) = 3 /\ stack = <<3>>
    /\ ChildrenOf(entries[1]) = <<2>>
    /\ outline = <<1, 3>>

\* the ids of a list of entries in pre-order: each entry before its children,
\* the children from left to right
RECURSIVE PreOrder(_, _)
PreOrder(es, ids) ==
    IF ids = <<>> THEN <<>>
    ELSE <<Head(ids)>> \o PreOrder(es, ChildrenOf(es[Head(ids)]))
         \o PreOrder(es, Tail(ids))

\* the positions of the non-BODY pairs among the first n, in input order
RECURSIVE HeadingPositions(_)
HeadingPositions(n) ==
    IF n = 0 THEN <<>>
    ELSE HeadingPositions(n - 1) \o (IF labels[n] # "BODY" THEN <<n>> ELSE <<>>)

\* C27: the entries are, one for one and in order, the non-BODY lines
\* consumed so far, and the pre-order traversal of the tree lists every
\* entry exactly once in that order.
C27_HeadingsInOrder ==
    pc \in {"loop", "done"} =>
        LET hs == HeadingPositions(i)
        IN  /\ Len(entries) = Len(hs)
            /\ \A k \in DOMAIN hs :
                  /\ entries[k].text = Strip(lines[hs[k]].text)
                  /\ entries[k].page = lines[hs[k]].page
                  /\ entries[k].level = labels[hs[k]]
            /\ PreOrder(entries, outline) = [k \in 1..Len(entries) |-> k]

\* a returned tree in which one heading has two children
C27_Witness ==
    /\ pc = "done" /\ Len(entries) = 3
    /\ \E n \in DOMAIN entries : Len(ChildrenOf(entries[n])) = 2

\* C30: no step changes the input line records or the label sequence, of
\* build_outline or of generate_flat_outline, and no line record ever holds
\* a key other than its own.
C30_InputsUnchanged ==
    /\ [](\A k \in DOMAIN lines : DOMAIN lines[k] = {"text", "page"})
    /\ [](\A k \in DOMAIN g_lines : DOMAIN g_lines[k] = {"text", "page_num"})
    /\ [][/\ lines' = lines /\ labels' = labels
          /\ g_lines' = g_lines /\ g_labels' = g_labels]_vars

\* a tree with a children list was returned for lines whose text still
\* carries its surrounding blanks
C30_Witness ==
    /\ pc = "done" /\ Len(lines) = 2
    /\ \A k \in DOMAIN lines : lines[k].text = TextPadded
    /\ Len(entries) = 2 /\ "children" \in DOMAIN entries[1]
    /\ entries[1].text = <<"A">>

-----------------------------------------------------------------------------
(* Claims about two calls of build_outline (specification SpecTwice) *)

\* C14: the second call on the same lines and labels returns a tree equal to
\* the first call's in nodes, levels, texts, pages and child order.
C14_SecondRunSame ==
    (run = 2 /\ pc = "done") => Forest(entries, outline) = first_tree

\* both calls have returned a tree with a nested heading and two roots
C14_Witness ==
    /\ run = 2 /\ pc = "done"
    /\ Len(first_tree) = 2 /\ Len(outline) = 2
    /\ \E k \in DOMAIN first_tree : first_tree[k].children # <<>>

-----------------------------------------------------------------------------
(* Claims about generate_flat_outline (specification SpecFlat) *)

\* the number of whitespace-separated words, counted by their last characters
Words(s) ==
    Cardinality({k \in 1..Len(s) :
        s[k] \notin Whitespace /\ (k = Len(s) \/ s[k + 1] \in Whitespace)})

\* positions of the heading-labeled lines, and the first two of them
HeadingAt == {k \in 1..Len(g_lines) : g_labels[k] \in {"H1", "H2", "H3"}}
FirstTwoHeadings ==
    {k \in HeadingAt : Cardinality({j \in HeadingAt : j < k}) < 2}
QualifyingAt(S) ==
    {k \in S : Words(Trimmed(g_lines[k].text)) > 3
               /\ Trimmed(g_lines[k].text) # Bullet}

\* the file name of the source without directory and extension
FileStemOf(path) == IF path = PathInDir THEN <<"r">> ELSE <<"q">>
FileStem == FileStemOf(g_path)

\* C8: the title is the trimmed text of the first of the first two
\* heading-labeled lines that has more than 3 words and is not the bullet
\* glyph, and the file-name fallback when neither qualifies, even if a later
\* heading would.
C8_TitleResolution ==
    g_pc # "title" =>
        LET q == QualifyingAt(FirstTwoHeadings)
        IN  IF q = {} THEN g_title = FileStem
            ELSE g_title = Trimmed(g_lines[CHOOSE a \in q : \A k \in q : a <= k].text)

\* neither of the first two headings qualifies, a third one does, and the
\* title is the fallback
C8_Witness ==
    /\ g_pc = "done"
    /\ Cardinality(HeadingAt) = 3
    /\ QualifyingAt(FirstTwoHeadings) = {}
    /\ QualifyingAt(HeadingAt) # {}
    /\ g_title = <<"r">>

\* C9 as stated: the candidates ["•", "Quarterly Report Summary"] give the
\* title "Quarterly Report Summary".
C9_ScenarioSelectsSecond ==
    (g_pc = "done" /\ g_lines = TitleScenarioLines) =>
        g_title = QuarterlyReportSummary

\* C9 as amended: with these candidates neither qualifies ("Quarterly Report
\* Summary" has three words, not more than three) and the title is the
\* file-name fallback.
C9_ScenarioFallsBack ==
    (g_pc = "done" /\ g_lines = TitleScenarioLines) => g_title = FileStem

\* the scenario has run to its end for the source q.pdf
C9_Witness ==
    /\ g_pc = "done" /\ g_lines = TitleScenarioLines
    /\ g_labels = <<"H1", "H2">> /\ g_title = <<"q">>

-----------------------------------------------------------------------------
(* Claims about the lines and features of predict_outline_for_file         *)
(* (specification SpecFile)                                                *)

\* C15: the collected lines are sorted by page, then by top y, and among
\* lines of one page with equal y by x0.
C15_LineOrder ==
    \A a, b \in DOMAIN f_lines :
        a < b =>
            \/ f_lines[a].page < f_lines[b].page
            \/ /\ f_lines[a].page = f_lines[b].page
               /\ \/ f_lines[a].y0 < f_lines[b].y0
                  \/ /\ f_lines[a].y0 = f_lines[b].y0
                     /\ f_lines[a].x0 <= f_lines[b].x0

\* the number of letters and digits of a text
AlnumCount(text) ==
    Cardinality({k \in DOMAIN text : text[k] \in Letters \cup Digits})

\* C17: feature computation raises no division error, and for every line the
\* features font_size_ratio and size_vs_prev are finite and positive, both
\* in the line dicts and in the feature records.
C17_RatiosFinitePositive ==
    /\ f_error # "ZeroDivisionError"
    /\ \A k \in DOMAIN f_lines :
          /\ f_lines[k].font_size_ratio.kind = "finite"
          /\ f_lines[k].font_size_ratio.hundredths > 0
          /\ f_lines[k].size_vs_prev > 0
    /\ \A k \in DOMAIN f_records :
          /\ f_records[k].font_size_ratio.kind = "finite"
          /\ f_records[k].font_size_ratio.hundredths > 0
          /\ f_records[k].size_vs_prev > 0

\* document_to_feature_sequence has been called and control has left it
FeaturesLeft ==
    \/ f_pc \in {"predict", "outline"}
    \/ f_pc = "done" /\ f_page = Len(f_doc) /\ f_lines # <<>>

\* C18: once document_to_feature_sequence has been called on the lines, the
\* feature sequence holds one record per line.
C18_FeatureCount ==
    FeaturesLeft => Len(f_records) = Len(f_lines)

\* C19: in the feature records vertical_gap is 0 for the first line of a
\* page and this line's top minus the previous line's bottom otherwise;
\* size_vs_prev is 1.0 for the first line and the ratio of the font sizes
\* otherwise.
C19_BoundaryValues ==
    \A k \in DOMAIN f_records :
        /\ f_records[k].vertical_gap =
              IF k = 1 \/ f_lines[k - 1].page # f_lines[k].page THEN 0
              ELSE 100 * (f_lines[k].y0 - f_lines[k - 1].y1)
        /\ f_records[k].size_vs_prev =
              IF k = 1 THEN 100
              ELSE Round2(f_lines[k].font_size, f_lines[k - 1].font_size)

\* the renderer lines of a page whose text has at least three letters or
\* digits
QualifyingFragments(page) ==
    UNION {{<<b, l>> : l \in {m \in DOMAIN BlockLines(page.blocks[b]) :
                AlnumCount(Concat(
                    [sp \in DOMAIN BlockLines(page.blocks[b])[m].spans |->
                        BlockLines(page.blocks[b])[m].spans[sp].text])) >= 3}} :
           b \in DOMAIN page.blocks}

\* every page has been extracted and none gave a line
AllPagesEmpty == f_pc = "done" /\ f_page = Len(f_doc) /\ f_lines = <<>>

C21_MismatchReported ==
    (f_pc = "done" /\ Len(f_labels) # Len(f_lines)) =>
        (f_error # None /\ f_result.outline = <<>>)

-----------------------------------------------------------------------------
(* Claims about extract_lines_from_pdf of scripts/utils (specification     *)
(* SpecScripts)                                                            *)

\* C16: every emitted line has at least three letters or digits in its text.
C16_FragmentFilter ==
    \A k \in DOMAIN f_lines : AlnumCount(f_lines[k].text) >= 3

-----------------------------------------------------------------------------
(* Claims about the recognition fallback (specification SpecOcr) *)

\* C4: in the written collection the lines of page p stand at page p's place:
\* after every line of an earlier page and before every line of a later one.
C4_PageOrder ==
    o_pc = "done" =>
        \A a, b \in DOMAIN output :
            a < b => origin[a].page <= origin[b].page

\* C5: a line recovered by the job of page index k carries page tag k.
C5_PageTag ==
    \A k \in DOMAIN features :
        origin[k].via = "ocr" => features[k].page = origin[k].page

\* the native text of a page: the texts of all spans of its blocks
NativeText(page) ==
    Concat([b \in DOMAIN page.blocks |->
        Concat([l \in DOMAIN BlockLines(page.blocks[b]) |->
            Concat([sp \in DOMAIN BlockLines(page.blocks[b])[l].spans |->
                BlockLines(page.blocks[b])[l].spans[sp].text])])])

\* a page without native text
BlankPage(page) == Strip(NativeText(page)) = <<>>

TasksOf(page_num) == {t \in DOMAIN ocr_tasks : ocr_tasks[t].page_num = page_num}

\* C6: once the document is scanned there is exactly one task for every blank
\* page and none for a page with native text.
C6_OneTaskPerBlankPage ==
    o_pc \notin {"extract"} =>
        \A k \in DOMAIN doc :
            Cardinality(TasksOf(k - 1)) = IF BlankPage(doc[k]) THEN 1 ELSE 0

LogCount(msg, t) ==
    Cardinality({k \in DOMAIN log : log[k] = [msg |-> msg, task |-> t]})

\* C7: a job that raised is reported once when it is collected, is submitted
\* once only, adds no line to the collection, does not abort main, and the
\* file is written with the lines of every job that returned.
C7_FailureSemantics ==
    /\ o_pc # "raised"
    /\ Len(fut) = submitted /\ submitted <= Len(ocr_tasks)
    /\ \A t \in DOMAIN fut :
          fut[t].state = "failed" =>
            /\ LogCount("failed", t) = (IF t \in Handled THEN 1 ELSE 0)
            /\ LogCount("completed", t) = 0
            /\ \A k \in DOMAIN origin : origin[k].task # t
    /\ o_pc \in {"write", "done"} => Handled = DOMAIN ocr_tasks
    /\ o_pc = "done" =>
          /\ output = features
          /\ \A t \in DOMAIN fut :
                fut[t].state = "done" =>
                    \E a \in 0..Len(output) :
                        SubSeq(output, a + 1, a + Len(fut[t].result)) = fut[t].result
                        /\ \A k \in 1..Len(fut[t].result) : origin[a + k].task = t

\* the file is written after one job raised and another returned a line
C7_Witness ==
    /\ o_pc = "done"
    /\ \E t, u \in DOMAIN fut :
          /\ fut[t].state = "failed"
          /\ fut[u].state = "done" /\ fut[u].result # <<>>
    /\ \E k \in DOMAIN output : origin[k].via = "native"

\* C28: two lines of the collection that carry the same page value come from
\* the same physical page, whether extracted natively or recovered.
C28_OnePageNumbering ==
    \A a, b \in DOMAIN features :
        features[a].page = features[b].page => origin[a].page = origin[b].page

\* the results of the tasks of q that returned, in the order of q
RECURSIVE ResultsOf(_)
ResultsOf(q) ==
    IF q = <<>> THEN <<>>
    ELSE (IF fut[Head(q)].state = "done" THEN fut[Head(q)].result ELSE <<>>)
         \o ResultsOf(Tail(q))

NativeCount == Cardinality({k \in DOMAIN origin : origin[k].via = "native"})

\* C23: no step of a worker changes the collection; a task is collected only
\* after it has completed, and once only; the collection is always the
\* native lines followed by the whole result of every collected task that
\* returned, each once, in the order of collection.
C23_AtomicMerge ==
    /\ [](/\ \A k \in 1..NativeCount : origin[k].via = "native"
          /\ features = SubSeq(features, 1, NativeCount) \o ResultsOf(collected)
          /\ \A a, b \in DOMAIN collected : collected[a] = collected[b] => a = b
          /\ \A a \in DOMAIN collected :
                fut[collected[a]].state \in {"done", "failed"})
    /\ [][fut' # fut => (features' = features /\ collected' = collected)]_vars

\* two jobs returned lines and were collected in the reverse of their
\* submission order, after a native line
C23_Witness ==
    /\ o_pc = "done" /\ collected = <<2, 1>>
    /\ fut[1].state = "done" /\ fut[1].result # <<>>
    /\ fut[2].state = "done" /\ fut[2].result # <<>>
    /\ NativeCount >= 1
    /\ Len(features) = NativeCount + Len(fut[1].result) + Len(fut[2].result)

\* the stripped texts of the words at the positions in `members`, from
\* position k on, joined by single spaces
RECURSIVE MemberTexts(_, _, _)
MemberTexts(ws, members, k) ==
    IF k > Len(ws) THEN <<>>
    ELSE (IF k \in members THEN <<Trimmed(ws[k].text)>> ELSE <<>>)
         \o MemberTexts(ws, members, k + 1)

MinOf(S) == CHOOSE v \in S : \A u \in S : v <= u
MaxOf(S) == CHOOSE v \in S : \A u \in S : u <= v

\* the lines `r` group the words `ws` by their (block, paragraph, line) key
GroupsWords(ws, r) ==
    LET kept == {k \in DOMAIN ws : Trimmed(ws[k].text) # <<>>}
        key(k) == <<ws[k].block_num, ws[k].par_num, ws[k].line_num>>
    IN  \E f \in [kept -> DOMAIN r] :
            /\ \A j \in DOMAIN r : \E k \in kept : f[k] = j
            /\ \A a, b \in kept : (f[a] = f[b]) <=> (key(a) = key(b))
            /\ \A j \in DOMAIN r :
                  LET members == {k \in kept : f[k] = j}
                      x0 == MinOf({ws[k].left : k \in members})
                      x1 == MaxOf({ws[k].left + ws[k].width : k \in members})
                      y0 == MinOf({ws[k].top : k \in members})
                      y1 == MaxOf({ws[k].top + ws[k].height : k \in members})
                  IN  /\ r[j].text = Join(MemberTexts(ws, members, 1))
                      /\ r[j].line_width = x1 - x0 /\ r[j].line_width >= 0
                      /\ r[j].line_height = y1 - y0 /\ r[j].line_height >= 0
                      /\ r[j].y_position = y0

\* C25: the lines a recognition job returned hold every recognized word with
\* non-empty trimmed text exactly once, two words in the same line iff they
\* share the (block, paragraph, line) key, in engine order, with the union
\* box's width and height; and every line of the collection, recovered or
\* native, has the same attribute set.
C25_LineGrouping ==
    /\ \A t \in DOMAIN fut :
          fut[t].state = "done" =>
              GroupsWords(doc[ocr_tasks[t].page_num + 1].raster, fut[t].result)
    /\ \A a, b \in DOMAIN features : DOMAIN features[a] = DOMAIN features[b]

\* the job of a page with two lines and an empty word was merged after a
\* native line
C25_Witness ==
    /\ o_pc = "done"
    /\ \E t \in DOMAIN fut :
          /\ fut[t].state = "done" /\ Len(fut[t].result) = 2
          /\ doc[ocr_tasks[t].page_num + 1] = TwoLinePage
          /\ t \in Handled
    /\ NativeCount >= 1 /\ Len(features) >= 3

\* the union of the boxes of a renderer line's spans
UnionBox(line) ==
    <<MinOf({line.spans[k].bbox[1] : k \in DOMAIN line.spans}),
      MinOf({line.spans[k].bbox[2] : k \in DOMAIN line.spans}),
      MaxOf({line.spans[k].bbox[3] : k \in DOMAIN line.spans}),
      MaxOf({line.spans[k].bbox[4] : k \in DOMAIN line.spans})>>

\* C26: every extracted line is a renderer line of its page taken with the
\* union of its fragments' boxes as x0, y0, x1, y1, the union's width, and
\* the size of its first fragment as font size.
C26_LineGeometry ==
    \A k \in DOMAIN f_lines :
        \E line \in Range(RendererLines(f_doc[f_lines[k].page + 1].blocks)) :
            /\ f_lines[k].text = LineText(line)
            /\ <<f_lines[k].x0, f_lines[k].y0, f_lines[k].x1, f_lines[k].y1>>
                   = UnionBox(line)
            /\ f_lines[k].width = UnionBox(line)[3] - UnionBox(line)[1]
            /\ f_lines[k].font_size = line.spans[1].size

\* C22: a job that has completed is collected in the end, whatever the other
\* jobs do, even if they never complete; once the loop collects, every
\* completed job not yet collected can be collected at once; and the pages
\* are extracted before any job exists that extraction could wait for.
C22_NonBlocking ==
    /\ \A t \in 1..MaxPages :
          (t \in DOMAIN fut /\ fut[t].state \in {"done", "failed"})
              ~> (t \in Handled)
    /\ [](o_pc = "collect" =>
            \A t \in DOMAIN fut :
                (fut[t].state = "done" /\ t \notin Handled) =>
                    ENABLED CollectDone(t))
    /\ [](o_pc = "extract" => (fut = <<>> /\ ENABLED Extract))

\* a job was collected while a job submitted before it has not completed
C22_Witness ==
    /\ o_pc = "collect"
    /\ \E t, u \in DOMAIN fut :
          /\ u < t
          /\ fut[u].state \in {"pending", "running"}
          /\ fut[t].state = "done" /\ t \in Handled
          /\ \E k \in DOMAIN origin : origin[k].task = t

\* C29: when every job returns or raises in the end, main reaches the end;
\* the file is written only when every submitted job has been handled, each
\* exactly once with one report; and nothing is collected once the loop is
\* left.
C29_CollectionCompletes ==
    /\ <>(o_pc = "done")
    /\ [](\A t \in DOMAIN fut :
            /\ Cardinality({k \in DOMAIN collected : collected[k] = t}) <= 1
            /\ LogCount("completed", t) + LogCount("failed", t)
                   = Cardinality({k \in DOMAIN collected : collected[k] = t}))
    /\ [](o_pc \in {"write", "done"} =>
            /\ Len(fut) = Len(ocr_tasks)
            /\ \A t \in DOMAIN fut :
                  Cardinality({k \in DOMAIN collected : collected[k] = t}) = 1)
    /\ [][(o_pc \in {"write", "done"}) =>
            (collected' = collected /\ features' = features /\ log' = log)]_vars
    /\ [](o_pc = "done" => output = features)

\* the file is written after three jobs were handled, one of which raised
C29_Witness ==
    /\ o_pc = "done" /\ Len(collected) = 3 /\ Len(log) = 3
    /\ \E t \in DOMAIN fut : fut[t].state = "failed"
    /\ \E t \in DOMAIN fut : fut[t].state = "done" /\ fut[t].result # <<>>
    /\ output = features

=============================================================================
